---- MODULE Spec2Model ----
(***************************************************************************)
(* A model of refinery/lib/ifps.py: the IFPS bytecode unit (function       *)
(* table, instruction decoder, basic-block and stack analysis) and the     *)
(* Variable cell.                                                          *)
(*                                                                         *)
(* Python values are modelled as follows.  Optional[x] is <<>> for None    *)
(* and <<x>> otherwise.  A dict whose iteration order the code relies on   *)
(* (BasicBlock.sources / BasicBlock.targets) is the sequence of its keys   *)
(* in insertion order; other dicts are functions.  Heterogeneous objects   *)
(* carry a "kind" (operands) or "cls" (values) field naming their class.   *)
(***************************************************************************)
EXTENDS Integers, Sequences, FiniteSets, TLC

VARIABLES
    input,      \* the function records the reader holds (never written)
    functions,  \* IFPSFile.functions
    void,       \* IFPSFile.void
    pc,         \* position of the unit: new, failed, loaded, trace, validate
    cur,        \* index of the function get_basic_blocks is running on
    frames,     \* call stack of trace_stack: per call its offset, its stack after the
                \* annotation loop and the targets its loop has still to visit
    visited,    \* trace_stack's visited set
    errored,    \* trace_stack's errored set
    call,       \* outcome of the last completed call
    cell,       \* a Variable: its type, _keyrange, integer limits and data
    last,       \* outcome of the last operation on the cell
    file,       \* the bytes of the header and the entries of the type table the
                \* reader holds (never written)
    types       \* IFPSFile.types

unitvars == <<input, functions, void, pc, cur, frames, visited, errored, call>>
cellvars == <<cell, last>>
filevars == <<file, types>>
vars == <<input, functions, void, pc, cur, frames, visited, errored, call, cell, last,
          file, types>>

(***************************************************************************)
(* Bounds of the model.                                                    *)
(***************************************************************************)
MaxBody == 3
MaxFuncs == 2

(***************************************************************************)
(* Python helpers.                                                         *)
(***************************************************************************)
None == <<>>
Some(x) == <<x>>

Range(s) == {s[i] : i \in 1..Len(s)}

\* d[k] = v on an insertion-ordered dict, seen as its key sequence
DictSet(keys, k) == IF k \in Range(keys) THEN keys ELSE Append(keys, k)

\* d.pop(k, None) on an insertion-ordered dict, seen as its key sequence
DictPop(keys, k) == SelectSeq(keys, LAMBDA x : x # k)

(***************************************************************************)
(* Opcodes.                                                                *)
(***************************************************************************)
FromInt(code) ==
    CASE code = 0   -> "Assign"
      [] code = 1   -> "Calculate"
      [] code = 2   -> "Push"
      [] code = 3   -> "PushVar"
      [] code = 4   -> "Pop"
      [] code = 5   -> "Call"
      [] code = 6   -> "Jump"
      [] code = 7   -> "JumpTrue"
      [] code = 8   -> "JumpFalse"
      [] code = 9   -> "Ret"
      [] code = 10  -> "StackType"
      [] code = 11  -> "PushType"
      [] code = 12  -> "Compare"
      [] code = 13  -> "CallVar"
      [] code = 14  -> "SetPtr"
      [] code = 15  -> "BooleanNot"
      [] code = 16  -> "Neg"
      [] code = 17  -> "SetFlag"
      [] code = 18  -> "JumpFlag"
      [] code = 19  -> "PushEH"
      [] code = 20  -> "PopEH"
      [] code = 21  -> "IntegerNot"
      [] code = 22  -> "SetCopyPtr"
      [] code = 23  -> "Inc"
      [] code = 24  -> "Dec"
      [] code = 25  -> "JumpPop1"
      [] code = 26  -> "JumpPop2"
      [] code = 255 -> "Nop"
      [] OTHER      -> "_INVALID"

_Op_StackD_JumpPop2AsPop1(opcode) ==
    CASE opcode = "Push"     -> 1
      [] opcode = "PushVar"  -> 1
      [] opcode = "PushType" -> 1
      [] opcode = "Pop"      -> -1
      [] opcode = "JumpPop1" -> -1
      [] opcode = "JumpPop2" -> -1
      [] OTHER               -> 0

\* Instruction.stack_delta: _Op_StackD.get(self.opcode, 0)
_Op_StackD(opcode) ==
    CASE opcode = "Push"     -> 1
      [] opcode = "PushVar"  -> 1
      [] opcode = "PushType" -> 1
      [] opcode = "Pop"      -> -1
      [] opcode = "JumpPop1" -> -1
      [] opcode = "JumpPop2" -> -2
      [] OTHER               -> 0

branches(insn) ==
    insn.opcode \in {"Jump", "JumpFalse", "JumpTrue", "JumpFlag", "JumpPop1", "JumpPop2"}

\* the popping jumps taken for conditional branches
jumpsOnlyJump(insn) ==
    insn.opcode = "Jump"

jumps(insn) ==
    insn.opcode \in {"Jump", "JumpPop1", "JumpPop2"}

\* operand counts of the opcodes that only take operands
argcount(opcode) ==
    CASE opcode \in {"Assign", "SetCopyPtr", "SetPtr"} -> 2
      [] opcode \in {"CallVar", "Dec", "Inc", "BooleanNot", "Neg", "IntegerNot"} -> 1
      [] OTHER -> -1

(***************************************************************************)
(* Variant words and operands.                                             *)
(***************************************************************************)
GlobalLimit == 1073741824    \* 0x40000000
LocalBase == 1610612736      \* 0x60000000

\* the decoding with the void flag left out of account
_read_variant_AsNonVoid(index, isvoid) ==
    IF index < GlobalLimit
    THEN [index |-> index, type |-> "Global"]
    ELSE IF index - LocalBase >= 0
         THEN [index |-> index - LocalBase, type |-> "Local"]
         ELSE [index |-> -(index - LocalBase) - 1, type |-> "Argument"]

_read_variant(index, isvoid) ==
    IF index < GlobalLimit
    THEN [index |-> index, type |-> "Global"]
    ELSE IF index - LocalBase >= 0
         THEN [index |-> index - LocalBase, type |-> "Local"]
         ELSE [index |-> IF isvoid THEN -(index - LocalBase) ELSE -(index - LocalBase) - 1,
               type  |-> "Argument"]

\* raw operand: kind byte ot, variant word v, index word idx (read for ot >= 2)
_read_operand(raw, isvoid) ==
    [kind    |-> "Operand",
     type    |-> CASE raw.ot = 0 -> "Variant"
                   [] raw.ot = 2 -> "IndexedByInt"
                   [] raw.ot = 3 -> "IndexedByVar",
     variant |-> Some(_read_variant(raw.v, isvoid)),
     index   |-> CASE raw.ot = 0 -> None
                   [] raw.ot = 2 -> Some(raw.idx)
                   [] raw.ot = 3 -> Some(_read_variant(raw.idx, isvoid))]

\* bytes the reader consumes for one operand
OperandSize(raw) == IF raw.ot = 0 THEN 5 ELSE 9

RECURSIVE OperandsSize(_)
OperandsSize(ops) ==
    IF ops = <<>> THEN 0 ELSE OperandSize(Head(ops)) + OperandsSize(Tail(ops))

(***************************************************************************)
(* Instruction decoder.  A raw instruction is what the reader yields for   *)
(* it: the opcode byte cval, the signed relative offset rel of a branch,   *)
(* the 32-bit word arg (function or type index), the raw operands ops and  *)
(* the four relative offsets eh of a PushEH.                               *)
(***************************************************************************)
Instruction(offset, opcode, size, operands) ==
    [offset |-> offset, opcode |-> opcode, size |-> size, stack |-> None,
     operands |-> operands, jumptarget |-> FALSE]

IntArg(n) == [kind |-> "int", n |-> n]

RECURSIVE ReadOperands(_, _)
ReadOperands(ops, isvoid) ==
    IF ops = <<>> THEN <<>>
    ELSE <<_read_operand(Head(ops), isvoid)>> \o ReadOperands(Tail(ops), isvoid)

\* bytes read for one instruction of the opcode, opcode byte included
SizeOf(code, raw) ==
    CASE argcount(code) >= 0                     -> 1 + OperandsSize(raw.ops)
      [] code \in {"Ret", "Nop", "Pop"}          -> 1
      [] code = "Calculate"                      -> 2 + OperandsSize(raw.ops)
      [] code \in {"Push", "PushVar"}            -> 1 + OperandsSize(raw.ops)
      [] code \in {"Jump", "JumpFlag"}           -> 5
      [] code = "Call"                           -> 5
      [] code \in {"JumpTrue", "JumpFalse"}      -> 5 + OperandsSize(raw.ops)
      [] code \in {"JumpPop1", "JumpPop2"}       -> 5
      [] code = "StackType"                      -> 9
      [] code = "PushType"                       -> 5
      [] code = "Compare"                        -> 2 + OperandsSize(raw.ops)
      [] code = "SetFlag"                        -> 2 + OperandsSize(raw.ops)
      [] code = "PushEH"                         -> 17
      [] code = "PopEH"                          -> 2

InsnSize(raw) == SizeOf(FromInt(raw.cval), raw)

\* the operands of an instruction of the opcode; tell is the position of
\* the reader after the instruction
ReadArgs(code, raw, tell, isvoid) ==
    CASE code \in {"Jump", "JumpFlag", "JumpPop1", "JumpPop2"} ->
            <<IntArg(tell + raw.rel)>>
      [] code \in {"JumpTrue", "JumpFalse"} ->
            <<IntArg(tell + raw.rel)>> \o ReadOperands(raw.ops, isvoid)
      [] code = "Call" -> <<IntArg(raw.arg)>>
      [] code = "StackType" ->
            <<[kind |-> "Variant", variant |-> _read_variant(raw.rel, isvoid)],
              IntArg(raw.arg)>>
      [] code = "PushType" -> <<[kind |-> "IFPSType", n |-> raw.arg]>>
      [] code = "SetFlag" ->
            ReadOperands(raw.ops, isvoid) \o <<[kind |-> "bool", b |-> raw.arg # 0]>>
      [] code = "PushEH" ->
            [k \in 1..4 |-> IF raw.eh[k] >= 0
                            THEN IntArg(raw.eh[k] + tell)
                            ELSE [kind |-> "None"]]
      [] code = "PopEH" -> <<IntArg(raw.arg)>>
      [] OTHER -> ReadOperands(raw.ops, isvoid)

\* one iteration of the decoding loop of _parse_bytecode
ReadInsn(raw, addr, size, isvoid) ==
    Instruction(addr, FromInt(raw.cval), size,
                ReadArgs(FromInt(raw.cval), raw, addr + size, isvoid))

\* the decoding loop of _parse_bytecode: the instructions in offset order
\* appended to disassembly, or ValueError at the first byte that is no opcode
RECURSIVE Disassemble(_, _, _, _)
Disassemble(raws, addr, isvoid, disassembly) ==
    IF raws = <<>> THEN [err |-> None, body |-> disassembly]
    ELSE IF FromInt(Head(raws).cval) = "_INVALID"
         THEN [err |-> Some("ValueError"), body |-> <<>>]
         ELSE Disassemble(Tail(raws), addr + InsnSize(Head(raws)), isvoid,
                Append(disassembly, ReadInsn(Head(raws), addr, InsnSize(Head(raws)), isvoid)))

Offsets(body) == {body[i].offset : i \in 1..Len(body)}

\* position in the body of the instruction starting at the offset
At(body, offset) == CHOOSE i \in 1..Len(body) : body[i].offset = offset

\* the second loop of _parse_bytecode with a missing target skipped
RECURSIVE MarkJumpTargetsNoCheck(_, _)
MarkJumpTargetsNoCheck(body, k) ==
    IF k > Len(body) THEN [err |-> None, body |-> body]
    ELSE IF ~branches(body[k]) THEN MarkJumpTargetsNoCheck(body, k + 1)
    ELSE LET target == body[k].operands[1].n IN
         IF target \notin Offsets(body)
         THEN MarkJumpTargetsNoCheck(body, k + 1)
         ELSE MarkJumpTargetsNoCheck(
                [body EXCEPT ![At(body, target)].jumptarget = TRUE], k + 1)

\* the second loop of _parse_bytecode, from the k-th instruction on
RECURSIVE MarkJumpTargets(_, _)
MarkJumpTargets(body, k) ==
    IF k > Len(body) THEN [err |-> None, body |-> body]
    ELSE IF ~branches(body[k]) THEN MarkJumpTargets(body, k + 1)
    ELSE LET target == body[k].operands[1].n IN
         IF target \notin Offsets(body)
         THEN [err |-> Some("RuntimeError"), body |-> <<>>]
         ELSE MarkJumpTargets(
                [body EXCEPT ![At(body, target)].jumptarget = TRUE], k + 1)

\* the second loop of _parse_bytecode on the outcome of the first
SecondPass(disassembly) ==
    IF disassembly.err # None THEN disassembly
    ELSE MarkJumpTargets(disassembly.body, 1)

_parse_bytecode(data, isvoid) == SecondPass(Disassemble(data, 0, isvoid, <<>>))

(***************************************************************************)
(* Function table.  A function record of the input holds the tag bits      *)
(* external and exported, the void flag of its declaration, its attribute  *)
(* list attrs (None without the HasAttrs tag) and its bytecode body.       *)
(***************************************************************************)
\* Function(name, decl, body, exported, attributes): the dataclass declares
\* the fields name, decl, body, attributes, _bbs, so the fourth positional
\* argument lands in attributes and the fifth in _bbs
Function(name, decl, body, exported, attributes) ==
    [name |-> name, decl |-> decl, body |-> body,
     attributes |-> exported, _bbs |-> attributes]

\* the declaration of a function record: ParseF / ParseE for exported ones
Decl(rec) == IF rec.exported THEN Some([void |-> rec.declvoid]) ELSE None

\* the first loop of _load_functions, from the k-th record on (k from 0);
\* parsed is the outcome of _parse_bytecode on the body of an internal record
RECURSIVE LoadRecords(_, _, _, _)
LoadParsed(records, k, fns, isvoid, parsed) ==
    IF parsed.err # None
    THEN [err |-> parsed.err, functions |-> fns, void |-> isvoid]
    ELSE LoadRecords(records, k + 1,
            Append(fns, Function(k, Decl(records[k + 1]), Some(parsed.body),
                                 records[k + 1].exported, records[k + 1].attrs)),
            isvoid)

LoadInternal(records, k, fns, isvoid) ==
    LoadParsed(records, k, fns, isvoid, _parse_bytecode(records[k + 1].body, isvoid))

LoadRecords(records, k, fns, isvoid) ==
    IF k >= Len(records) THEN [err |-> None, functions |-> fns, void |-> isvoid]
    ELSE IF records[k + 1].external
         THEN LoadRecords(records, k + 1,
                Append(fns, Function(k, Decl(records[k + 1]), None,
                                     records[k + 1].exported, records[k + 1].attrs)),
                isvoid)
         ELSE LoadInternal(records, k, fns,
                IF records[k + 1].exported THEN records[k + 1].declvoid ELSE FALSE)

FunctionRef(t) == [kind |-> "Function", name |-> t]

\* the second loop of _load_functions resolving only calls to functions
\* registered before the caller
RECURSIVE ResolveCallsBackwardOnly(_, _, _)
ResolveCallsBackwardOnly(fns, f, i) ==
    IF f > Len(fns) THEN [err |-> None, functions |-> fns]
    ELSE IF fns[f].body = None \/ i > Len(fns[f].body[1])
         THEN ResolveCallsBackwardOnly(fns, f + 1, 1)
    ELSE LET instruction == fns[f].body[1][i] IN
         IF instruction.opcode # "Call" THEN ResolveCallsBackwardOnly(fns, f, i + 1)
         ELSE LET t == instruction.operands[1].n IN
              IF t >= Len(fns)
              THEN [err |-> Some("IndexError"), functions |-> fns]
              ELSE IF t >= f - 1 THEN ResolveCallsBackwardOnly(fns, f, i + 1)
              ELSE ResolveCallsBackwardOnly(
                     [fns EXCEPT ![f].body[1][i].operands[1] = FunctionRef(t)], f, i + 1)

\* the second loop of _load_functions, from instruction i of function f on
RECURSIVE ResolveCalls(_, _, _)
ResolveCalls(fns, f, i) ==
    IF f > Len(fns) THEN [err |-> None, functions |-> fns]
    ELSE IF fns[f].body = None \/ i > Len(fns[f].body[1])
         THEN ResolveCalls(fns, f + 1, 1)
    ELSE LET instruction == fns[f].body[1][i] IN
         IF instruction.opcode # "Call" THEN ResolveCalls(fns, f, i + 1)
         ELSE LET t == instruction.operands[1].n IN
              IF t >= Len(fns)
              THEN [err |-> Some("IndexError"), functions |-> fns]
              ELSE ResolveCalls(
                     [fns EXCEPT ![f].body[1][i].operands[1] = FunctionRef(t)], f, i + 1)

\* the second loop of _load_functions on the outcome of the first
Resolved(isvoid, resolved) ==
    [err |-> resolved.err, functions |-> resolved.functions, void |-> isvoid]

SecondLoop(loaded) ==
    IF loaded.err # None THEN loaded
    ELSE Resolved(loaded.void, ResolveCalls(loaded.functions, 1, 1))

_load_functions(records) == SecondLoop(LoadRecords(records, 0, <<>>, FALSE))

(***************************************************************************)
(* Basic blocks.  The block map bbs is a function from block offsets to    *)
(* blocks; a block's body holds the positions of its instructions in the   *)
(* function body, its sources and targets the offsets of the neighbours.   *)
(***************************************************************************)
BasicBlock(offset) ==
    [offset |-> offset, stack |-> None, body |-> <<>>, sources |-> <<>>, targets |-> <<>>]

\* bbs[k] = b
Put(bbs, k, b) == [o \in DOMAIN bbs \cup {k} |-> IF o = k THEN b ELSE bbs[o]]

\* nb.sources[bb.offset] = bb; bb.targets[nb.offset] = nb
Link(bbs, bb, nb) ==
    [bbs EXCEPT ![nb].sources = DictSet(@, bb), ![bb].targets = DictSet(@, nb)]

\* the loop over the successors of a branch instruction appended to block bb
RECURSIVE AddTargets(_, _, _)
AddTargets(bbs, bb, targets) ==
    IF targets = <<>> THEN bbs
    ELSE LET t  == Head(targets)
             b1 == IF t \in DOMAIN bbs THEN bbs ELSE Put(bbs, t, BasicBlock(t))
         IN AddTargets([b1 EXCEPT ![bb].targets = DictSet(@, t),
                                  ![t].sources = DictSet(@, bb)],
                       bb, Tail(targets))

\* the block construction loop of get_basic_blocks, from the i-th
\* instruction on, bb being the offset of the current block
RECURSIVE BuildBlocks(_, _, _, _)
BuildBlocks(body, i, bbs, bb) ==
    IF i > Len(body) THEN bbs
    ELSE LET insn == body[i]
             known == insn.offset \in DOMAIN bbs
             b1 == IF ~known /\ insn.jumptarget
                   THEN Link(Put(bbs, insn.offset, BasicBlock(insn.offset)), bb, insn.offset)
                   ELSE bbs
             cb == IF known \/ insn.jumptarget THEN insn.offset ELSE bb
             b2 == [b1 EXCEPT ![cb].body = Append(@, i)]
             sequence == insn.offset + insn.size
             targets == IF ~branches(insn) THEN <<>>
                        ELSE <<insn.operands[1].n>> \o
                             (IF ~jumps(insn) /\ insn.opcode # "Ret"
                              THEN <<sequence>> ELSE <<>>)
         IN BuildBlocks(body, i + 1, AddTargets(b2, cb, targets), cb)

\* the deletion without the detaching from the sources
DeleteEmptyKeepEdges(bbs) ==
    [o \in {b \in DOMAIN bbs : bbs[b].body # <<>>} |-> bbs[o]]

\* the loop deleting the blocks that stayed empty
DeleteEmpty(bbs) ==
    LET empty == {o \in DOMAIN bbs : bbs[o].body = <<>>} IN
    [o \in DOMAIN bbs \ empty |->
        [bbs[o] EXCEPT !.targets =
            SelectSeq(@, LAMBDA t : ~(t \in empty /\ o \in Range(bbs[t].sources)))]]

\* the annotation loop of trace_stack over the instruction positions of a
\* block: the annotated body and the exit depth
RECURSIVE Annotate(_, _, _)
Annotate(body, positions, stack) ==
    IF positions = <<>> THEN [body |-> body, stack |-> stack]
    ELSE Annotate([body EXCEPT ![Head(positions)].stack = Some(stack)],
                  Tail(positions),
                  stack + _Op_StackD(body[Head(positions)].opcode))

\* the operand check of the validation loop: TRUE when the loop raises
OperandFails(op, stack) ==
    /\ op.kind = "Operand"
    /\ op.variant # None
    /\ op.variant[1].type = "Local"
    /\ ~(op.variant[1].index <= stack)

\* the validation loop of get_basic_blocks: None, or the position of the
\* first instruction and operand slot it raises IndexError for
RECURSIVE Validate(_, _, _)
Validate(body, i, k) ==
    IF i > Len(body) THEN None
    ELSE IF body[i].stack = None \/ k > Len(body[i].operands) THEN Validate(body, i + 1, 1)
    ELSE IF OperandFails(body[i].operands[k], body[i].stack[1])
         THEN Some([offset |-> body[i].offset, k |-> k - 1])
         ELSE Validate(body, i, k + 1)

(***************************************************************************)
(* Types and Python values of the Variable cell.  A value carries its      *)
(* class cls and its content in a field of its own; a text is the sequence *)
(* of its code points, so that ord and chr are conversions between an      *)
(* integer and a one-element sequence.                                     *)
(***************************************************************************)
TPrimitive(code) == [cls |-> "TPrimitive", code |-> code]
TSet(size) == [cls |-> "TSet", code |-> "Set", size |-> size]
TArray(type) == [cls |-> "TArray", code |-> "Array", type |-> type]
TStaticArray(type, size) ==
    [cls |-> "TStaticArray", code |-> "StaticArray", type |-> type, size |-> size]
TRecord(members) == [cls |-> "TRecord", code |-> "Record", members |-> members]
TClass(name) == [cls |-> "TClass", code |-> "Class", name |-> name]

PyNone == [cls |-> "NoneType"]
PyInt(n) == [cls |-> "int", n |-> n]
PyBool(b) == [cls |-> "bool", b |-> b]
PyFloat(x) == [cls |-> "float", x |-> x]
PyStr(codepoints) == [cls |-> "str", s |-> codepoints]
PyList(elements) == [cls |-> "list", l |-> elements]
Value(type, value) == [cls |-> "Value", type |-> type, value |-> value]

\* the integer a Python int or bool stands for
IntOf(value) == IF value.cls = "bool" THEN (IF value.b THEN 1 ELSE 0) ELSE value.n

isinstance(value, t) ==
    CASE t = "int"   -> value.cls \in {"int", "bool"}
      [] t = "bool"  -> value.cls = "bool"
      [] t = "float" -> value.cls = "float"
      [] t = "str"   -> value.cls = "str"
      [] OTHER       -> FALSE

\* TC.width
width(code) ==
    CASE code = "Variant" -> 16
      [] code \in {"Char", "S08", "U08"} -> 1
      [] code \in {"WideChar", "S16", "U16"} -> 2
      [] code \in {"WideString", "UnicodeString", "Interface", "Class", "PChar",
                   "String", "Single", "S32", "U32"} -> 4
      [] code \in {"ProcPtr", "Pointer"} -> 12
      [] code \in {"Currency", "Double", "S64"} -> 8
      [] code = "Extended" -> 10
      [] code = "ReturnAddress" -> 28
      [] OTHER -> 0

container(type) == type.code \in {"StaticArray", "Array", "Record"}

\* TPrimitive.py_type: the class expected by a primitive of the code
PrimitivePyType(code) ==
    CASE code \in {"ReturnAddress", "U08", "S08", "U16", "S16", "U32", "S32",
                   "S64", "Enum"} -> Some("int")
      [] code \in {"Single", "Double", "Extended", "Currency"} -> Some("float")
      [] code \in {"String", "PChar", "Char", "WideString", "WideChar",
                   "UnicodeString"} -> Some("str")
      [] code \in {"Pointer", "ResourcePointer", "Variant"} -> Some("Variable")
      [] code = "Type" -> Some("IFPSType")
      [] OTHER -> None

\* py_type(key) of the type classes; element and member types are primitive
py_type(type, key) ==
    CASE type.cls = "TPrimitive" -> PrimitivePyType(type.code)
      [] type.cls = "TSet" -> Some("int")
      [] type.cls \in {"TArray", "TStaticArray"} -> PrimitivePyType(type.type.code)
      [] type.cls = "TRecord" -> PrimitivePyType(type.members[key[1] + 1].code)
      [] OTHER -> None

\* TPrimitive.default: tc() for the classes int, float and str
PrimitiveDefault(code) ==
    CASE PrimitivePyType(code) = Some("int")   -> PyInt(0)
      [] PrimitivePyType(code) = Some("float") -> PyFloat(0)
      [] PrimitivePyType(code) = Some("str")   -> PyStr(<<>>)
      [] OTHER -> PyNone

default(type, key) ==
    CASE type.cls = "TPrimitive" -> PrimitiveDefault(type.code)
      [] type.cls = "TSet" -> PyInt(0)
      [] type.cls \in {"TArray", "TStaticArray"} -> PrimitiveDefault(type.type.code)
      [] type.cls = "TRecord" -> PrimitiveDefault(type.members[key[1] + 1].code)
      [] OTHER -> PyNone

(***************************************************************************)
(* Variable.  The payload data is a dict (a function from keys, None or    *)
(* Some(k), to values) or, for a Set after an unkeyed assignment, an int.  *)
(***************************************************************************)
Dict(d) == [kind |-> "dict", d |-> d]
Mask(n) == [kind |-> "int", n |-> n]

\* Variable.__init__: the payload
Variable(type) ==
    [type |-> type,
     data |-> IF ~container(type) /\ default(type, None) # PyNone
              THEN Dict([k \in {None} |-> default(type, None)])
              ELSE Dict(<<>>)]

\* key in self._keyrange
InKeyRange(type, key) ==
    CASE type.cls = "TRecord" -> key # None /\ key[1] \in 0..(Len(type.members) - 1)
      [] type.cls = "TArray" -> key # None /\ key[1] >= 0 /\ key[1] \div 65536 < 65536
      [] type.cls = "TStaticArray" -> key # None /\ key[1] \in 0..(type.size - 1)
      [] OTHER -> key = None

\* self._int_size: the width in bytes, negative for the signed codes
_int_size(type) ==
    (CASE type.code \in {"U08", "U16", "U32"} -> 1
       [] type.code \in {"S08", "S16", "S32", "S64"} -> -1
       [] OTHER -> 0) * width(type.code)

abs(n) == IF n < 0 THEN -n ELSE n

_int_bits(type) == abs(_int_size(type)) * 8

\* umax = 1 << bits
umax(type) == 2 ^ _int_bits(type)

_int_mask(type) == umax(type) - 1

\* value in self._int_good
_int_good(type, n) ==
    IF _int_size(type) < 0
    THEN -(umax(type) \div 2) <= n /\ n < umax(type) \div 2
    ELSE 0 <= n /\ n < umax(type)

\* a & mask for a mask 2^b - 1, a >> n, on Python's unbounded integers
BitAnd(a, mask) == a % (mask + 1)
ShiftRight(a, n) == a \div (2 ^ n)

\* the body of _wrap below `if s`, with a mask one bit too wide
WrappedWideMask(type, s, n) == BitAnd(n, 2 * umax(type) - 1)

\* the body of _wrap below `if s`: n is the integer of the value
Wrapped(type, s, n) ==
    IF s < 0 /\ ShiftRight(BitAnd(n, _int_mask(type)), _int_bits(type) - 1) # 0
    THEN -BitAnd(-BitAnd(n, _int_mask(type)), _int_mask(type))
    ELSE BitAnd(n, _int_mask(type))

\* s := self._int_size and value not in self._int_good; the walrus binds the
\* whole conjunction, so s is 0 or the boolean False (0) or True (1)
WrapFlag(type, value) ==
    IF _int_size(type) = 0 THEN 0
    ELSE IF _int_good(type, IntOf(value)) THEN 0 ELSE 1

_wrap(type, value) ==
    IF WrapFlag(type, value) # 0
    THEN PyInt(Wrapped(type, WrapFlag(type, value), IntOf(value)))
    ELSE value

Raise(err) == [err |-> Some(err), value |-> PyNone]
Return(value) == [err |-> None, value |-> value]

\* the type check of _cast for the expected class t: ord for a text of
\* length one, chr for an integer (ValueError outside range(0x110000))
CastValue(type, t, value) ==
    IF t = None \/ isinstance(value, t[1]) THEN Return(value)
    ELSE IF t[1] = "int" /\ isinstance(value, "str") /\ Len(value.s) = 1
         THEN Return(PyInt(value.s[1]))
    ELSE IF t[1] = "str" /\ isinstance(value, "int")
         THEN IF IntOf(value) \in 0..1114111
              THEN Return(PyStr(<<IntOf(value)>>))
              ELSE Raise("ValueError")
    ELSE Raise("TypeError")

\* if isinstance(value, Value): value = value.value
Unwrap(value) == IF value.cls = "Value" THEN value.value ELSE value

_cast(type, key, value) ==
    IF ~InKeyRange(type, key) THEN Raise("IndexError")
    ELSE IF value = PyNone THEN Return(PyNone)
    ELSE CastValue(type, py_type(type, key), Unwrap(value))

\* self.data[key] = self._wrap(self._cast(key, value)), cast being the
\* outcome of _cast
SetItem(type, data, key, cast) ==
    IF cast.err # None THEN [err |-> cast.err, data |-> data]
    ELSE [err |-> None,
          data |-> Dict([k \in DOMAIN data.d \cup {key} |->
                            IF k = key THEN _wrap(type, cast.value) ELSE data.d[k]])]

\* the lowest bit, whatever k
BitZero(n, k) == n % 2

\* bit k of a Python integer
Bit(n, k) == ShiftRight(n, k) % 2

\* Variable.set on a Set type
SetOfSet(type, data, value, key) ==
    IF key = None
    THEN IF ~isinstance(Unwrap(value), "int")
         THEN [err |-> Some("TypeError"), data |-> data]
         ELSE [err |-> None, data |-> Mask(IntOf(Unwrap(value)))]
    ELSE IF ~isinstance(value, "bool") THEN [err |-> Some("TypeError"), data |-> data]
    ELSE IF key[1] \notin 0..(type.size - 1) THEN [err |-> Some("IndexError"), data |-> data]
    ELSE IF data.kind = "dict" THEN [err |-> Some("TypeError"), data |-> data]
    ELSE IF value.b
         THEN [err |-> None,
               data |-> Mask(IF Bit(data.n, key[1]) = 1 THEN data.n ELSE data.n + 2 ^ key[1])]
         ELSE [err |-> None,
               data |-> Mask(IF Bit(data.n, key[1]) = 1 THEN data.n - 2 ^ key[1] ELSE data.n)]

\* iter(value): the elements of a list, the characters of a text
iterable(value) == value.cls \in {"list", "str"}
Elements(value) ==
    IF value.cls = "str" THEN [i \in 1..Len(value.s) |-> PyStr(<<value.s[i]>>)] ELSE value.l

\* Variable.set with a key, or on a type that is no container
SetKeyed(type, data, value, key) ==
    IF type.code = "Set" THEN SetOfSet(type, data, value, key)
    ELSE SetItem(type, data, key, _cast(type, key, value))

\* for k, element in enumerate(iter(value)): self.set(element, k), from the
\* k-th element on, res being the outcome so far
RECURSIVE SetAll(_, _, _, _)
SetAll(type, res, elements, k) ==
    IF res.err # None \/ k >= Len(elements) THEN res
    ELSE SetAll(type, SetKeyed(type, res.data, elements[k + 1], Some(k)), elements, k + 1)

\* Variable.set: the exception raised, if any, and the payload it leaves
set(type, data, value, key) ==
    IF key = None /\ container(type)
    THEN IF ~iterable(value) THEN [err |-> Some("TypeError"), data |-> data]
         ELSE SetAll(type, [err |-> None, data |-> data], Elements(value), 0)
    ELSE SetKeyed(type, data, value, key)

Max(S) == CHOOSE m \in S : \A x \in S : x <= m

\* data.get(k, type.default(k))
DictGet(type, d, k) == IF Some(k) \in DOMAIN d THEN d[Some(k)] ELSE default(type, Some(k))

\* Variable.get: the exception raised, if any, and the value returned
get(type, data, key) ==
    IF key = None /\ container(type)
    THEN IF DOMAIN data.d = {} THEN Raise("ValueError")
         ELSE Return(PyList([i \in 1..Max({k[1] : k \in DOMAIN data.d}) |->
                              DictGet(type, data.d, i - 1)]))
    ELSE IF type.code = "Set"
    THEN IF key = None
         THEN Return(IF data.kind = "dict" THEN [cls |-> "dict", d |-> data.d] ELSE PyInt(data.n))
         ELSE IF key[1] \notin 0..(type.size - 1) THEN Raise("IndexError")
         ELSE IF data.kind = "dict" THEN Raise("TypeError")
         ELSE Return(PyBool(Bit(data.n, key[1]) = 1))
    ELSE IF ~InKeyRange(type, key) THEN Raise("IndexError")
    ELSE IF key \notin DOMAIN data.d THEN Raise("KeyError")
    ELSE Return(data.d[key])

(***************************************************************************)
(* Inputs.                                                                 *)
(***************************************************************************)
Raw(cval, rel, arg, ops) == [cval |-> cval, rel |-> rel, arg |-> arg, ops |-> ops, eh |-> <<>>]

\* operand of kind Variant addressing local k / global k
LocalOp(k) == [ot |-> 0, v |-> LocalBase + k, idx |-> 0]
GlobalOp(k) == [ot |-> 0, v |-> k, idx |-> 0]

RawPush(op) == Raw(2, 0, 0, <<op>>)
RawPop == Raw(4, 0, 0, <<>>)
RawCall(t) == Raw(5, 0, t, <<>>)
RawJump(rel) == Raw(6, rel, 0, <<>>)
RawJumpTrue(rel, op) == Raw(7, rel, 0, <<op>>)
RawRet == Raw(9, 0, 0, <<>>)
RawJumpPop1(rel) == Raw(25, rel, 0, <<>>)
RawJumpPop2(rel) == Raw(26, rel, 0, <<>>)

\* the instructions bodies are drawn from: pushes of locals 0 and 1, Pop,
\* Ret, a jump over one byte, a jump into itself (no instruction start), a
\* conditional jump over one byte, a conditional jump back over itself and
\* a 6-byte instruction, the popping jumps to the next instruction, and a
\* popping jump over one byte
RawInsns ==
    { RawPush(LocalOp(0)), RawPush(LocalOp(1)), RawPop, RawRet,
      RawJump(1), RawJump(-4),
      RawJumpTrue(1, GlobalOp(0)), RawJumpTrue(-16, GlobalOp(0)),
      RawJumpPop1(0), RawJumpPop2(0), RawJumpPop1(1) }

SeqsUpTo(S, n) == UNION {[1..m -> S] : m \in 0..n}

\* Push, Push, JumpPop2 +0, Ret
BranchScenario ==
    <<RawPush(LocalOp(0)), RawPush(LocalOp(0)), RawJumpPop2(0), RawRet>>

\* Push, L: Push, JumpTrue L, Ret
LoopScenario ==
    <<RawPush(LocalOp(0)), RawPush(LocalOp(0)), RawJumpTrue(-16, GlobalOp(0)), RawRet>>

\* JumpTrue X, Push, Jump X, X: Ret
MergeScenario ==
    <<RawJumpTrue(11, GlobalOp(0)), RawPush(LocalOp(0)), RawJump(0), RawRet>>

\* L: Push, Pop, JumpTrue L, Ret: a loop that comes back at the same depth
NeutralLoopScenario ==
    <<RawPush(LocalOp(0)), RawPop, RawJumpTrue(-17, GlobalOp(0)), RawRet>>

Bodies ==
    SeqsUpTo(RawInsns, MaxBody)
    \cup {BranchScenario, LoopScenario, MergeScenario, NeutralLoopScenario}

Record(external, exported, declvoid, attrs, body) ==
    [external |-> external, exported |-> exported, declvoid |-> declvoid,
     attrs |-> attrs, body |-> body]

\* units of one internal function with a body of Bodies
BodyInputs == {<<Record(FALSE, FALSE, FALSE, None, body)>> : body \in Bodies}

\* units of up to MaxFuncs functions: external ones, and internal ones that
\* return or call the function with index 0..MaxFuncs, with and without an
\* attribute list
CallRecords ==
    {Record(TRUE, FALSE, FALSE, None, <<>>)}
    \cup {Record(FALSE, FALSE, FALSE, attrs, body) :
            attrs \in {None, Some(<<"A">>)},
            body \in {<<RawRet>>} \cup {<<RawCall(t), RawRet>> : t \in 0..MaxFuncs}}

CallInputs == SeqsUpTo(CallRecords, MaxFuncs) \ {<<>>}

\* the variant words used: the ends of the three ranges, up to the largest
\* word below 2^31
Words ==
    {0, 1, GlobalLimit - 1, GlobalLimit, GlobalLimit + 1, LocalBase - 2, LocalBase - 1,
     LocalBase, LocalBase + 1, 2147483647}

VariantOp(v) == [ot |-> 0, v |-> v, idx |-> 0]
IndexedByIntOp(v, n) == [ot |-> 2, v |-> v, idx |-> n]
IndexedByVarOp(v, w) == [ot |-> 3, v |-> v, idx |-> w]

Operands ==
    {VariantOp(v) : v \in Words}
    \cup {IndexedByIntOp(v, 5) : v \in {0, LocalBase - 1}}
    \cup {IndexedByVarOp(v, w) : v \in {0, LocalBase - 1, LocalBase}, w \in Words}

\* units of one function that pushes an operand of Operands, exported or
\* not, void or not; and units where that function comes after an exported
\* void one, internal or external
VariantInputs ==
    {<<Record(FALSE, exported, declvoid, None, <<RawPush(op), RawRet>>)>> :
        exported \in BOOLEAN, declvoid \in BOOLEAN, op \in Operands}
    \cup {<<Record(external, TRUE, TRUE, None, IF external THEN <<>> ELSE <<RawRet>>),
            Record(FALSE, exported, FALSE, None, <<RawPush(op), RawRet>>)>> :
        external \in BOOLEAN, exported \in BOOLEAN, op \in Operands}

Inputs == BodyInputs \cup CallInputs \cup VariantInputs

(***************************************************************************)
(* The unit: IFPSFile.__init__ up to the function table, and               *)
(* Function.get_basic_blocks.                                              *)
(***************************************************************************)
NoCall == [op |-> "none", fn |-> 0, raised |-> None, ret |-> None]

\* no Variable is constructed while the unit is analysed
CellIdle == [type |-> PyNone, data |-> Dict(<<>>)]
LastIdle == [op |-> "none"]
NoFile == [head |-> <<>>, types |-> <<>>]

UnitInit ==
    /\ input \in Inputs
    /\ functions = <<>>
    /\ void = FALSE
    /\ pc = "new"
    /\ cur = 0
    /\ frames = <<>>
    /\ visited = {}
    /\ errored = {}
    /\ call = NoCall

Init ==
    /\ UnitInit
    /\ cell = CellIdle
    /\ last = LastIdle
    /\ file = NoFile
    /\ types = <<>>

\* IFPSFile.__init__: the function table is loaded, or the constructor raises
Load ==
    /\ pc = "new"
    /\ \E loaded \in {_load_functions(input)} :
        /\ functions' = loaded.functions
        /\ void' = loaded.void
        /\ pc' = IF loaded.err = None THEN "loaded" ELSE "failed"
        /\ call' = [op |-> "_load_functions", fn |-> 0, raised |-> loaded.err, ret |-> None]
    /\ UNCHANGED <<input, cur, frames, visited, errored, cell, last, file, types>>

\* get_basic_blocks up to the first call of trace_stack
get_basic_blocks(k) ==
    /\ pc = "loaded"
    /\ k \in 1..Len(functions)
    /\ LET self == functions[k] IN
       IF self._bbs # None
       THEN /\ call' = [op |-> "get_basic_blocks", fn |-> k, raised |-> None, ret |-> self._bbs]
            /\ UNCHANGED <<functions, pc, cur, frames, visited, errored>>
       ELSE IF self.body = None
       THEN /\ functions' = [functions EXCEPT ![k]._bbs = Some(<<>>)]
            /\ call' = [op |-> "get_basic_blocks", fn |-> k, raised |-> None, ret |-> Some(<<>>)]
            /\ UNCHANGED <<pc, cur, frames, visited, errored>>
       ELSE LET bbs == BuildBlocks(self.body[1], 1, [o \in {0} |-> BasicBlock(0)], 0) IN
            /\ functions' = [functions EXCEPT ![k]._bbs = Some(DeleteEmpty(bbs))]
            /\ pc' = "trace"
            /\ cur' = k
            /\ frames' = <<[offset |-> None, todo |-> <<0>>, stack |-> Some(0)]>>
            /\ visited' = {}
            /\ errored' = {}
            /\ UNCHANGED call
    /\ UNCHANGED <<input, void, cell, last, file, types>>

\* trace_stack without the return at a block that was visited
trace_stack_NoVisitedCheck ==
    /\ pc = "trace"
    /\ frames # <<>>
    /\ frames[Len(frames)].todo # <<>>
    /\ LET top    == frames[Len(frames)]
           offset == Head(top.todo)
           stack  == top.stack
           caller == [frames EXCEPT ![Len(frames)].todo = Tail(@)]
           bbs    == functions[cur]._bbs[1]
       IN
       IF offset \in errored
       THEN /\ frames' = caller
            /\ UNCHANGED <<functions, pc, visited, errored, call>>
       ELSE IF offset \notin DOMAIN bbs
       THEN /\ pc' = "loaded"
            /\ frames' = <<>>
            /\ call' = [op |-> "get_basic_blocks", fn |-> cur,
                        raised |-> Some("KeyError"), ret |-> None]
            /\ UNCHANGED <<functions, visited, errored>>
       ELSE LET bb == bbs[offset]
                s  == IF bb.stack # None /\ stack # bb.stack THEN None ELSE stack
            IN
            IF FALSE
            THEN /\ frames' = caller
                 /\ UNCHANGED <<functions, pc, visited, errored, call>>
            ELSE LET body == IF s = None THEN <<>> ELSE bb.body
                     done == IF s = None
                             THEN [body |-> functions[cur].body[1], stack |-> None]
                             ELSE LET a == Annotate(functions[cur].body[1], body, s[1])
                                  IN [body |-> a.body, stack |-> Some(a.stack)]
                 IN
                 /\ errored' = IF s = None THEN errored \cup {offset} ELSE errored
                 /\ visited' = IF s = None THEN visited ELSE visited \cup {offset}
                 /\ functions' = [functions EXCEPT ![cur]._bbs[1][offset].stack = s,
                                                   ![cur].body = Some(done.body)]
                 /\ frames' = Append(caller, [offset |-> Some(offset), todo |-> bb.targets,
                                               stack |-> done.stack])
                 /\ UNCHANGED <<pc, call>>
    /\ UNCHANGED <<input, void, cur, cell, last, file, types>>

\* one call trace_stack(offset, stack): the next successor of the innermost
\* loop `for t in bb.targets`, or trace_stack(0, 0)
trace_stack ==
    /\ pc = "trace"
    /\ frames # <<>>
    /\ frames[Len(frames)].todo # <<>>
    /\ LET top    == frames[Len(frames)]
           offset == Head(top.todo)
           stack  == top.stack
           caller == [frames EXCEPT ![Len(frames)].todo = Tail(@)]
           bbs    == functions[cur]._bbs[1]
       IN
       IF offset \in errored
       THEN /\ frames' = caller
            /\ UNCHANGED <<functions, pc, visited, errored, call>>
       ELSE IF offset \notin DOMAIN bbs
       THEN /\ pc' = "loaded"
            /\ frames' = <<>>
            /\ call' = [op |-> "get_basic_blocks", fn |-> cur,
                        raised |-> Some("KeyError"), ret |-> None]
            /\ UNCHANGED <<functions, visited, errored>>
       ELSE LET bb == bbs[offset]
                s  == IF bb.stack # None /\ stack # bb.stack THEN None ELSE stack
            IN
            IF s # None /\ offset \in visited
            THEN /\ frames' = caller
                 /\ UNCHANGED <<functions, pc, visited, errored, call>>
            ELSE LET body == IF s = None THEN <<>> ELSE bb.body
                     done == IF s = None
                             THEN [body |-> functions[cur].body[1], stack |-> None]
                             ELSE LET a == Annotate(functions[cur].body[1], body, s[1])
                                  IN [body |-> a.body, stack |-> Some(a.stack)]
                 IN
                 /\ errored' = IF s = None THEN errored \cup {offset} ELSE errored
                 /\ visited' = IF s = None THEN visited ELSE visited \cup {offset}
                 /\ functions' = [functions EXCEPT ![cur]._bbs[1][offset].stack = s,
                                                   ![cur].body = Some(done.body)]
                 /\ frames' = Append(caller, [offset |-> Some(offset), todo |-> bb.targets,
                                               stack |-> done.stack])
                 /\ UNCHANGED <<pc, call>>
    /\ UNCHANGED <<input, void, cur, cell, last, file, types>>

\* a call of trace_stack returns: its loop over bb.targets is exhausted
trace_stack_return ==
    /\ pc = "trace"
    /\ frames # <<>>
    /\ frames[Len(frames)].todo = <<>>
    /\ frames' = SubSeq(frames, 1, Len(frames) - 1)
    /\ pc' = IF Len(frames) = 1 THEN "validate" ELSE "trace"
    /\ UNCHANGED <<input, functions, void, cur, visited, errored, call, cell, last, file, types>>

\* the validation loop of get_basic_blocks and its return
validate ==
    /\ pc = "validate"
    /\ \E bad \in {Validate(functions[cur].body[1], 1, 1)} :
       call' = [op |-> "get_basic_blocks", fn |-> cur,
                raised |-> IF bad = None THEN None ELSE Some("IndexError"),
                ret |-> IF bad = None THEN functions[cur]._bbs ELSE None]
    /\ pc' = "loaded"
    /\ UNCHANGED <<input, functions, void, cur, frames, visited, errored, cell, last, file, types>>

Next ==
    \/ Load
    \/ \E k \in 1..MaxFuncs : get_basic_blocks(k)
    \/ trace_stack
    \/ trace_stack_return
    \/ validate

Spec == Init /\ [][Next]_vars

\* get_basic_blocks runs trace_stack(0, 0) to its end before it goes on: the
\* interpreter takes every step of the recursion that is enabled
SpecTermination ==
    Init /\ [][Next]_vars /\ WF_vars(trace_stack) /\ WF_vars(trace_stack_return)

(***************************************************************************)
(* The Variable cell: construction, set and get.                           *)
(***************************************************************************)
IntBound == 2

\* the integers assigned: the small ones and the neighbours of the limits
\* of the 8-bit and 16-bit cells
IntValues ==
    (-IntBound..IntBound)
    \cup {-32769, -32768, -129, -128, 127, 128, 255, 256, 32767, 32768, 65535, 65536, 65537}

\* the values assigned to a cell that is neither a container nor a Set
ScalarValues ==
    {PyInt(n) : n \in IntValues}
    \cup {PyBool(TRUE), PyBool(FALSE), PyFloat(15),
          PyStr(<<>>), PyStr(<<65>>), PyStr(<<65, 66>>),
          PyList(<<PyInt(1), PyInt(2)>>), Value(TPrimitive("U08"), PyInt(7))}

\* the values assigned to a Set
SetValues ==
    {PyInt(0), PyInt(5), PyInt(256), PyBool(TRUE), PyBool(FALSE), PyStr(<<65>>)}

\* the values assigned to a container, as a whole or to one key
ContainerValues ==
    {PyInt(1), PyInt(300), PyStr(<<65>>), PyStr(<<65, 66>>), PyFloat(15),
     PyList(<<>>), PyList(<<PyInt(1), PyInt(2)>>),
     PyList(<<PyInt(1), PyInt(2), PyInt(3)>>),
     PyList(<<PyInt(1), PyStr(<<65, 66>>)>>)}

Values(type) ==
    IF container(type) THEN ContainerValues
    ELSE IF type.code = "Set" THEN SetValues
    ELSE ScalarValues

\* the keys used: the valid ones and one past them
Keys(type) ==
    IF container(type) THEN {None, Some(0), Some(1), Some(2)}
    ELSE IF type.code = "Set" THEN {None, Some(0), Some(2), Some(8), Some(9)}
    ELSE {None, Some(0)}

CellTypes ==
    {TPrimitive("U08"), TPrimitive("S08"), TPrimitive("U16"), TPrimitive("S16"),
     TPrimitive("Single"), TPrimitive("String"), TPrimitive("Char"),
     TClass("TObject"), TSet(9),
     TStaticArray(TPrimitive("U08"), 2), TArray(TPrimitive("U08")),
     TRecord(<<TPrimitive("U08"), TPrimitive("String")>>)}

Outcome(op, key, value, before, raised, ret) ==
    [op |-> op, key |-> key, value |-> value, before |-> before,
     raised |-> raised, ret |-> ret]

VariableInit ==
    /\ input = <<>>
    /\ functions = <<>>
    /\ void = FALSE
    /\ pc = "cell"
    /\ cur = 0
    /\ frames = <<>>
    /\ visited = {}
    /\ errored = {}
    /\ call = NoCall
    /\ \E type \in CellTypes :
        /\ cell = Variable(type)
        /\ last = Outcome("__init__", None, PyNone, Dict(<<>>), None, PyNone)
    /\ file = NoFile
    /\ types = <<>>

\* Variable.set(value, key)
Set(value, key) ==
    /\ pc = "cell"
    /\ \E res \in {set(cell.type, cell.data, value, key)} :
        /\ cell' = [cell EXCEPT !.data = res.data]
        /\ last' = Outcome("set", key, value, cell.data, res.err, PyNone)
    /\ UNCHANGED <<unitvars, filevars>>

\* Variable.get(key)
Get(key) ==
    /\ pc = "cell"
    /\ \E res \in {get(cell.type, cell.data, key)} :
        last' = Outcome("get", key, PyNone, cell.data, res.err, res.value)
    /\ UNCHANGED <<cell, input, functions, void, pc, cur, frames, visited, errored, call,
                   file, types>>

VariableNext ==
    \/ \E key \in Keys(cell.type) : \E value \in Values(cell.type) : Set(value, key)
    \/ \E key \in Keys(cell.type) : Get(key)

SpecVariable == VariableInit /\ [][VariableNext]_vars

(***************************************************************************)
(* The header and the type table: IFPSFile.__init__ up to the end of       *)
(* _load_types.  The header is held as bytes; the table as its entries,    *)
(* one per type, of which there are count_types.                           *)
(***************************************************************************)
MaxTypes == 3

MinVer == 12
MaxVer == 23
\* B'IFPS'
Magic == <<73, 70, 80, 83>>

\* reader.u32(): four bytes, little-endian
u32(bytes) == bytes[1] + 256 * bytes[2] + 65536 * bytes[3] + 16777216 * bytes[4]

\* reader.remaining_bytes before anything is read: every entry of the table
\* holds at least the byte of its type code
remaining_bytes(f) == Len(f.head) + Len(f.types)

version == u32(SubSeq(file.head, 5, 8))
count_types == u32(SubSeq(file.head, 9, 12))

\* the checks with the upper limit of the versions left out of the range
HeaderErrorExclusiveMax(f) ==
    IF remaining_bytes(f) < 28
    THEN Some("ValueError: Less than 28 bytes in file, not enough data to parse.")
    ELSE IF SubSeq(f.head, 1, 4) # Magic
    THEN Some("ValueError: Invalid magic sequence")
    ELSE IF u32(SubSeq(f.head, 5, 8)) \notin MinVer..(MaxVer - 1)
    THEN Some("NotImplementedError")
    ELSE None

\* the checks of IFPSFile.__init__: the exception raised, if any
HeaderError(f) ==
    IF remaining_bytes(f) < 28
    THEN Some("ValueError: Less than 28 bytes in file, not enough data to parse.")
    ELSE IF SubSeq(f.head, 1, 4) # Magic
    THEN Some("ValueError: Invalid magic sequence")
    ELSE IF u32(SubSeq(f.head, 5, 8)) \notin MinVer..MaxVer
    THEN Some("NotImplementedError")
    ELSE None

\* TC(typecode): the name of the code, or the ValueError of the enumeration
TC(typecode) ==
    LET names == <<"ReturnAddress", "U08", "S08", "U16", "S16", "U32", "S32", "Single",
                   "Double", "Extended", "String", "Record", "Array", "Pointer", "PChar",
                   "ResourcePointer", "Variant", "S64", "Char", "WideString", "WideChar",
                   "ProcPtr", "StaticArray", "Set", "Currency", "Class", "Interface",
                   "NotificationVariant", "UnicodeString">>
    IN  IF typecode < Len(names) THEN Return(names[typecode + 1]) ELSE Raise("ValueError")

\* a lookup that yields a placeholder for an index past the list
TypeAtAnyIndex(list, index) ==
    IF index < Len(list) THEN Return(list[index + 1]) ELSE Return(TPrimitive("U08"))

\* types[index] with the index read from the file
TypeAt(list, index) ==
    IF index < Len(list) THEN Return(list[index + 1]) ELSE Raise("IndexError")

\* tuple(types[reader.u32()] for _ in range(length)): the first lookup that
\* raises ends it
RECURSIVE Members(_, _, _)
Members(list, refs, members) ==
    IF refs = <<>> THEN Return(members)
    ELSE IF TypeAt(list, Head(refs)).err # None THEN TypeAt(list, Head(refs))
    ELSE Members(list, Tail(refs), Append(members, TypeAt(list, Head(refs)).value))

\* the type built for the code, the lookups being done
TypeOf(code, entry, element, members) ==
    CASE code \in {"Class", "ExtClass"} -> Return(TClass(entry.name))
      [] code = "ProcPtr" -> Return([cls |-> "TProcPtr", code |-> code])
      [] code = "Interface" -> Return([cls |-> "TInterface", code |-> code])
      [] code = "Set" -> Return(TSet(entry.size))
      [] code = "StaticArray" ->
            IF element.err # None THEN element
            ELSE Return(TStaticArray(element.value, entry.size))
      [] code = "Array" ->
            IF element.err # None THEN element ELSE Return(TArray(element.value))
      [] code = "Record" ->
            IF members.err # None THEN members ELSE Return(TRecord(members.value))
      [] OTHER -> Return(TPrimitive(code))

\* one pass of the loop of _load_types: the type to append, or the exception
ReadType(entry, list) ==
    IF TC(entry.typecode % 128).err # None THEN TC(entry.typecode % 128)
    ELSE TypeOf(TC(entry.typecode % 128).value, entry,
                TypeAt(list, entry.ref), Members(list, entry.members, <<>>))

\* the entries of the table: their type code byte and the fields read
\* after it
Entry(typecode, name, size, ref, members) ==
    [typecode |-> typecode, name |-> name, size |-> size, ref |-> ref, members |-> members]

TypeEntries ==
    {Entry(1, "", 0, 0, <<>>), Entry(129, "", 0, 0, <<>>), Entry(29, "", 0, 0, <<>>),
     Entry(23, "", 9, 0, <<>>), Entry(25, "TObject", 0, 0, <<>>)}
    \cup {Entry(12, "", 0, ref, <<>>) : ref \in 0..MaxTypes}
    \cup {Entry(22, "", 2, ref, <<>>) : ref \in 0..MaxTypes}
    \cup {Entry(11, "", 0, 0, <<0, ref>>) : ref \in 0..MaxTypes}
    \cup {Entry(11, "", 0, 0, <<ref, 0>>) : ref \in 0..MaxTypes}

U32Bytes(n) == <<n % 256, (n \div 256) % 256, (n \div 65536) % 256, n \div 16777216>>

\* the 28 bytes of a header: magic, version, count_types, count_functions,
\* count_variables, entry, import_size
Header(magic, ver, count) ==
    magic \o U32Bytes(ver) \o U32Bytes(count) \o U32Bytes(0) \o U32Bytes(0)
          \o U32Bytes(0) \o U32Bytes(0)

File(head, entries) == [head |-> head, types |-> entries]

\* files with a table of up to MaxTypes entries behind a header of each
\* magic and of the versions at and around the limits; and the headers cut
\* short
Files ==
    {File(Header(Magic, 23, Len(entries)), entries) : entries \in SeqsUpTo(TypeEntries, MaxTypes)}
    \cup {File(Header(magic, ver, Len(entries)), entries) :
            magic \in {Magic, <<73, 70, 80, 84>>, <<0, 0, 0, 0>>},
            ver \in {0, 11, 12, 13, 22, 23, 24, 268, 16777228},
            entries \in {<<>>, <<Entry(1, "", 0, 0, <<>>)>>}}
    \cup {File(SubSeq(Header(magic, ver, 0), 1, n), <<>>) :
            magic \in {Magic, <<73, 70, 80, 84>>},
            ver \in {11, 12},
            n \in {0, 3, 4, 8, 27}}

FileInit ==
    /\ input = <<>>
    /\ functions = <<>>
    /\ void = FALSE
    /\ pc = "file"
    /\ cur = 0
    /\ frames = <<>>
    /\ visited = {}
    /\ errored = {}
    /\ call = NoCall
    /\ cell = CellIdle
    /\ last = LastIdle
    /\ file \in Files
    /\ types = <<>>

\* IFPSFile.__init__ up to the call of _load_types
__init__ ==
    /\ pc = "file"
    /\ \E err \in {HeaderError(file)} :
        /\ pc' = IF err = None THEN "types" ELSE "failed"
        /\ call' = [op |-> "__init__", fn |-> 0, raised |-> err, ret |-> None]
    /\ UNCHANGED <<input, functions, void, cur, frames, visited, errored, cell, last,
                   file, types>>

\* one pass of the loop of _load_types, or its end
_load_types ==
    /\ pc = "types"
    /\ IF Len(types) >= count_types
       THEN /\ pc' = "typed"
            /\ call' = [op |-> "_load_types", fn |-> 0, raised |-> None, ret |-> None]
            /\ UNCHANGED types
       ELSE \E t \in {ReadType(file.types[Len(types) + 1], types)} :
            IF t.err = None
            THEN /\ types' = Append(types, t.value)
                 /\ UNCHANGED <<pc, call>>
            ELSE /\ pc' = "failed"
                 /\ call' = [op |-> "_load_types", fn |-> 0, raised |-> t.err, ret |-> None]
                 /\ UNCHANGED types
    /\ UNCHANGED <<input, functions, void, cur, frames, visited, errored, cell, last, file>>

FileNext ==
    \/ __init__
    \/ _load_types

SpecFile == FileInit /\ [][FileNext]_vars

(***************************************************************************)
(* Properties of the function table and of the instruction decoder.        *)
(***************************************************************************)
\* the instructions of the k-th function, none for a function without body
BodyOf(k) == IF functions[k].body = None THEN <<>> ELSE functions[k].body[1]

\* C6: every body that _parse_bytecode returned has each branch target at
\* the start of one of its instructions, and jumptarget set on exactly the
\* instructions some branch of the body targets; a record whose decoded
\* body has a branch to an offset that starts no instruction makes the
\* load raise RuntimeError (BadJumpTarget) and registers no function for it
C6_BranchTargets ==
    /\ \A k \in 1..Len(functions) : \A i \in 1..Len(BodyOf(k)) :
        /\ branches(BodyOf(k)[i]) =>
              \E j \in 1..Len(BodyOf(k)) :
                  BodyOf(k)[j].offset = BodyOf(k)[i].operands[1].n
        /\ BodyOf(k)[i].jumptarget <=>
              \E j \in 1..Len(BodyOf(k)) :
                  /\ branches(BodyOf(k)[j])
                  /\ BodyOf(k)[j].operands[1].n = BodyOf(k)[i].offset
    /\ pc # "new" =>
        \A k \in 1..Len(input) :
            (/\ ~input[k].external
             /\ \E body \in {Disassemble(input[k].body, 0, FALSE, <<>>).body} :
                  \E i \in 1..Len(body) :
                      /\ branches(body[i])
                      /\ \A j \in 1..Len(body) : body[j].offset # body[i].operands[1].n)
            => /\ pc = "failed"
               /\ call.raised = Some("RuntimeError")
               /\ Len(functions) < k

\* a loaded body with a backward branch, whose target is marked
C6_Witness ==
    /\ pc = "loaded"
    /\ \E i \in 1..Len(BodyOf(1)) : \E j \in 1..Len(BodyOf(1)) :
        /\ branches(BodyOf(1)[i])
        /\ BodyOf(1)[i].operands[1].n = BodyOf(1)[j].offset
        /\ j < i
        /\ BodyOf(1)[j].jumptarget

\* C7: once the function table is loaded, the first operand of every Call
\* is a function of the unit's list, the one at the raw index of the
\* bytecode, and no Call keeps an integer
C7_CallsResolved ==
    pc \notin {"new", "failed", "cell"} =>
        \A k \in 1..Len(functions) : \A i \in 1..Len(BodyOf(k)) :
            BodyOf(k)[i].opcode = "Call" =>
                /\ BodyOf(k)[i].operands[1].kind = "Function"
                /\ BodyOf(k)[i].operands[1].name \in 0..(Len(functions) - 1)
                /\ BodyOf(k)[i].operands[1].name = input[k].body[i].arg

\* a loaded unit whose first function calls the second, registered later
C7_Witness ==
    /\ pc = "loaded"
    /\ Len(functions) = 2
    /\ \E i \in 1..Len(BodyOf(1)) :
        /\ BodyOf(1)[i].opcode = "Call"
        /\ BodyOf(1)[i].operands[1] = FunctionRef(1)

(***************************************************************************)
(* Properties of the stack analysis of get_basic_blocks.                   *)
(***************************************************************************)
\* the block map of the function under analysis
Blocks == functions[cur]._bbs[1]

\* C1: when get_basic_blocks has returned normally for a function with a
\* body, every Local variant operand of an instruction with a known depth s
\* has an index below s; an index equal to s is one the analysis fails for
C1_LocalIndexBelowDepth ==
    (/\ pc = "loaded"
     /\ call.op = "get_basic_blocks"
     /\ call.raised = None)
    => \A i \in 1..Len(BodyOf(call.fn)) : \A k \in 1..Len(BodyOf(call.fn)[i].operands) :
         \E insn \in {BodyOf(call.fn)[i]} : \E op \in {insn.operands[k]} :
            (/\ insn.stack # None
             /\ op.kind = "Operand"
             /\ op.variant # None
             /\ op.variant[1].type = "Local")
            => op.variant[1].index < insn.stack[1]

\* C3: when the propagation is over, every block it marked as errored has
\* the depth None, and so has every instruction of that block
C3_ConflictClearsInstructions ==
    pc = "validate" =>
        \A o \in errored :
            /\ Blocks[o].stack = None
            /\ \A j \in 1..Len(Blocks[o].body) :
                 BodyOf(cur)[Blocks[o].body[j]].stack = None

\* C8: the propagation enters block 0 with depth 0; in a block with the
\* known entry depth d the j-th instruction is annotated with d plus the
\* deltas of the instructions before it (Push, PushVar, PushType +1; Pop,
\* JumpPop1 -1; JumpPop2 -2; others 0), and the depth the block hands to
\* its successors is d plus the deltas of all its instructions; for Push,
\* Push, JumpPop2 +0, Ret the Ret is annotated with 0
C8_StackPropagation ==
    pc \in {"trace", "validate"} =>
        LET delta(opcode) ==
                CASE opcode \in {"Push", "PushVar", "PushType"} -> 1
                  [] opcode \in {"Pop", "JumpPop1"} -> -1
                  [] opcode = "JumpPop2" -> -2
                  [] OTHER -> 0
            body == BodyOf(cur)
            sum[j \in 0..Len(body)] ==
                IF j = 0 THEN 0 ELSE sum[j - 1] + delta(body[j].opcode)
            \* deltas of the first n instructions of the block at offset o
            prefix(o, n) ==
                IF n = 0 THEN 0
                ELSE sum[Blocks[o].body[n]] - sum[Blocks[o].body[1] - 1]
        IN
        /\ \A n \in 1..Len(frames) :
             IF frames[n].offset = None
             THEN frames[n].stack = Some(0) /\ frames[n].todo \in {<<0>>, <<>>}
             ELSE \E o \in {frames[n].offset[1]} :
                    Blocks[o].stack # None =>
                        frames[n].stack = Some(Blocks[o].stack[1] + prefix(o, Len(Blocks[o].body)))
        /\ \A o \in visited :
             Blocks[o].stack # None =>
                \A j \in 1..Len(Blocks[o].body) :
                    body[Blocks[o].body[j]].stack = Some(Blocks[o].stack[1] + prefix(o, j - 1))
        /\ (pc = "validate" /\ 0 \in DOMAIN Blocks) => body[1].stack = Some(0)
        /\ (pc = "validate" /\ input = <<Record(FALSE, FALSE, FALSE, None, BranchScenario)>>)
              => body[4].stack = Some(0)

\* the propagation is over for Push, Push, JumpPop2 +0, Ret: the block of
\* the Ret was entered from the JumpPop2 with the two pushes popped
C8_Witness ==
    /\ pc = "validate"
    /\ input = <<Record(FALSE, FALSE, FALSE, None, BranchScenario)>>
    /\ BodyOf(cur)[3].stack = Some(2)
    /\ BodyOf(cur)[4].stack = Some(0)
    /\ \E o \in DOMAIN Blocks : Blocks[o].body = <<4>> /\ Blocks[o].stack = Some(0)

(***************************************************************************)
(* Properties of Variable.                                                 *)
(***************************************************************************)
\* C2: after a set of the integer v has returned on a cell of a signed code
\* of B bits, the cell stores v mod 2^B, less 2^B when bit B-1 of that
\* residue is set: 128 is stored in an S08 as -128, -129 as 127, and 0x8000
\* in an S16 as -0x8000
C2_SignedWrap ==
    (/\ pc = "cell"
     /\ last.op = "set"
     /\ last.raised = None
     /\ last.value.cls = "int"
     /\ cell.type.code \in {"S08", "S16"})
    => \E B \in {IF cell.type.code = "S08" THEN 8 ELSE 16} :
       \E r \in {last.value.n % (2 ^ B)} :
          cell.data.d[None] = PyInt(IF r >= 2 ^ (B - 1) THEN r - 2 ^ B ELSE r)

\* C4: when the keys assigned in a container are 0..n-1, all the keys of a
\* StaticArray or of a Record, the unkeyed get returns the n elements stored
\* under them, in the order of the keys
C4_UnkeyedGetDense ==
    (/\ pc = "cell"
     /\ last.op = "get"
     /\ last.key = None
     /\ container(cell.type)
     /\ \E n \in 1..3 :
          /\ DOMAIN cell.data.d = {Some(k) : k \in 0..(n - 1)}
          /\ cell.type.code = "StaticArray" => n = cell.type.size
          /\ cell.type.code = "Record" => n = Len(cell.type.members))
    => /\ last.raised = None
       /\ last.ret = PyList([i \in 1..Cardinality(DOMAIN cell.data.d) |->
                                cell.data.d[Some(i - 1)]])

\* C5: a keyed set of True on a Set whose payload is still the one of the
\* construction returns and leaves the bitmask 2^k when k is below the size,
\* and raises IndexError when it is not
C5_NewSetBit ==
    (/\ pc = "cell"
     /\ last.op = "set"
     /\ cell.type.code = "Set"
     /\ last.before = Variable(cell.type).data
     /\ last.key # None
     /\ last.value = PyBool(TRUE))
    => IF last.key[1] < cell.type.size
       THEN last.raised = None /\ cell.data = Mask(2 ^ last.key[1])
       ELSE last.raised = Some("IndexError")

\* C9: after a set of the integer v has returned on a cell of an unsigned
\* code of B bits, the cell stores v mod 2^B, for negative v too: 256 is
\* stored in a U08 as 0 and 0x10001 in a U16 as 1, and an unkeyed get
\* returns what is stored
C9_UnsignedWrap ==
    /\ (/\ pc = "cell"
        /\ last.op = "set"
        /\ last.raised = None
        /\ last.value.cls = "int"
        /\ cell.type.code \in {"U08", "U16"})
       => /\ cell.data.d[None] =
                PyInt(last.value.n % (2 ^ (IF cell.type.code = "U08" THEN 8 ELSE 16)))
          /\ (cell.type.code = "U08" /\ last.value.n = 256) => cell.data.d[None] = PyInt(0)
          /\ (cell.type.code = "U16" /\ last.value.n = 65537) => cell.data.d[None] = PyInt(1)
    /\ (/\ pc = "cell"
        /\ last.op = "get"
        /\ last.key = None
        /\ cell.type.code \in {"U08", "U16"})
       => last.raised = None /\ last.ret = cell.data.d[None]

\* 0x10001 was assigned to a U16, which stores 1
C9_Witness ==
    /\ pc = "cell"
    /\ cell.type.code = "U16"
    /\ last.op = "set"
    /\ last.value = PyInt(65537)
    /\ last.raised = None
    /\ cell.data.d[None] = PyInt(1)

\* C10: a set on a cell of a primitive code with an expected class, of a
\* value that is not of that class, returns in two cases only: a text of
\* one character into a cell of class int, which stores the code point, and
\* an integer in the range of the code points into a Char, which stores the
\* character; any other such set raises TypeError and leaves the payload as
\* it was
C10_Coercions ==
    (/\ pc = "cell"
     /\ last.op = "set"
     /\ last.key = None
     /\ cell.type.cls = "TPrimitive"
     /\ py_type(cell.type, None) # None
     /\ Unwrap(last.value) # PyNone
     /\ ~isinstance(Unwrap(last.value), py_type(cell.type, None)[1])
     /\ Unwrap(last.value).cls \in {"int", "bool"} => IntOf(Unwrap(last.value)) >= 0)
    => \E t \in {py_type(cell.type, None)[1]} : \E value \in {Unwrap(last.value)} :
        IF t = "int" /\ value.cls = "str" /\ Len(value.s) = 1
        THEN /\ last.raised = None
             /\ cell.data.d[None] = PyInt(value.s[1])
        ELSE IF cell.type.code = "Char" /\ value.cls \in {"int", "bool"}
        THEN /\ last.raised = None
             /\ cell.data.d[None] = PyStr(<<IntOf(value)>>)
        ELSE /\ last.raised = Some("TypeError")
             /\ cell.data = last.before

(***************************************************************************)
(* Properties of the header and of the type table.                         *)
(***************************************************************************)
\* C11: once __init__ has checked the header, a file of fewer than 28
\* bytes has raised the ValueError of the size; else a file whose first
\* four bytes are not IFPS has raised the ValueError of the magic; else a
\* file whose version is not in 12..23 has raised NotImplementedError; in
\* the three cases no type is decoded; any other file has gone on to the
\* type table
C11_HeaderChecks ==
    pc # "file" =>
        IF Len(file.head) + Len(file.types) < 28
        THEN /\ pc = "failed"
             /\ call.raised =
                  Some("ValueError: Less than 28 bytes in file, not enough data to parse.")
             /\ types = <<>>
        ELSE IF SubSeq(file.head, 1, 4) # <<73, 70, 80, 83>>
        THEN /\ pc = "failed"
             /\ call.raised = Some("ValueError: Invalid magic sequence")
             /\ types = <<>>
        ELSE IF \E ver \in 12..23 : SubSeq(file.head, 5, 8) = <<ver, 0, 0, 0>>
        THEN call.op = "__init__" => (pc = "types" /\ call.raised = None)
        ELSE /\ pc = "failed"
             /\ call.raised = Some("NotImplementedError")
             /\ types = <<>>

\* a file of version 23 with a valid magic has gone on to its type table
C11_Witness ==
    /\ pc = "types"
    /\ call.op = "__init__"
    /\ SubSeq(file.head, 1, 8) = <<73, 70, 80, 83, 23, 0, 0, 0>>
    /\ file.types # <<>>

\* C12: every type in the table at position i (from 0) that is an Array, a
\* StaticArray or a Record was built from entries whose indices are below
\* i, and holds the types at those indices; when _load_types has raised,
\* the type of the entry it was reading is not in the table, and the
\* exception is IndexError when that entry refers to an index that is not
\* below the number of types decoded before it
C12_NoForwardReference ==
    /\ \A i \in 1..Len(types) :
        \E entry \in {file.types[i]} :
            /\ entry.typecode % 128 = 12 =>
                  /\ entry.ref < i - 1
                  /\ types[i] = TArray(types[entry.ref + 1])
            /\ entry.typecode % 128 = 22 =>
                  /\ entry.ref < i - 1
                  /\ types[i] = TStaticArray(types[entry.ref + 1], entry.size)
            /\ entry.typecode % 128 = 11 =>
                  /\ \A m \in 1..Len(entry.members) : entry.members[m] < i - 1
                  /\ types[i] = TRecord([m \in 1..Len(entry.members) |->
                                            types[entry.members[m] + 1]])
    /\ (pc = "failed" /\ call.op = "_load_types") =>
        /\ Len(types) < Len(file.types)
        /\ \E entry \in {file.types[Len(types) + 1]} :
            IF \/ entry.typecode % 128 \in {12, 22} /\ entry.ref >= Len(types)
               \/ /\ entry.typecode % 128 = 11
                  /\ \E m \in 1..Len(entry.members) : entry.members[m] >= Len(types)
            THEN call.raised = Some("IndexError")
            ELSE call.raised = Some("ValueError")
    /\ pc = "typed" => Len(types) = Len(file.types)

\* the third type is an Array of the second, itself a Record of the first
C12_Witness ==
    /\ pc = "typed"
    /\ Len(types) = 3
    /\ file.types[3].typecode = 12
    /\ file.types[3].ref = 1
    /\ types[2].code = "Record"
    /\ types[3].type = types[2]

(***************************************************************************)
(* Properties of the variant words.                                        *)
(***************************************************************************)
\* C13: in every loaded body the variant of an operand, and the index
\* variant of an operand indexed by a variable, is the decoding of its word
\* v: Global v below 0x40000000, Local v - 0x60000000 from 0x60000000 on,
\* else Argument 0x60000000 - v in a function that is exported and void and
\* Argument 0x5FFFFFFF - v in any other; so Argument 0 is in no body of a
\* void function
C13_VariantDecoding ==
    pc \notin {"new", "failed"} =>
        \A k \in 1..Len(functions) : \A i \in 1..Len(BodyOf(k)) :
        \A j \in 1..Len(input[k].body[i].ops) :
            LET isvoid == input[k].exported /\ input[k].declvoid
                decoded(v) ==
                    IF v < 1073741824 THEN [index |-> v, type |-> "Global"]
                    ELSE IF v >= 1610612736
                    THEN [index |-> v - 1610612736, type |-> "Local"]
                    ELSE IF isvoid THEN [index |-> 1610612736 - v, type |-> "Argument"]
                    ELSE [index |-> 1610612735 - v, type |-> "Argument"]
                raw == input[k].body[i].ops[j]
                \* the operands of a branch come after its target
                op == BodyOf(k)[i].operands[j + Len(BodyOf(k)[i].operands)
                                              - Len(input[k].body[i].ops)]
            IN  /\ op.variant = Some(decoded(raw.v))
                /\ raw.ot = 3 => op.index = Some(decoded(raw.idx))
                /\ (isvoid /\ op.variant[1].type = "Argument") => op.variant[1].index # 0
                /\ (isvoid /\ raw.ot = 3 /\ op.index[1].type = "Argument")
                      => op.index[1].index # 0

\* a loaded unit whose second function, not exported, comes after an
\* exported void one and holds the operand Argument 0
C13_Witness ==
    /\ pc = "loaded"
    /\ Len(functions) = 2
    /\ input[1].exported /\ input[1].declvoid /\ ~input[1].external
    /\ ~input[2].exported
    /\ BodyOf(2)[1].operands[1].variant = Some([index |-> 0, type |-> "Argument"])

(***************************************************************************)
(* Properties of the block map.                                            *)
(***************************************************************************)
\* C14: when get_basic_blocks has returned, what it returned is what the
\* function caches; it is the empty map for a function without a body, and
\* for a function with a body a map of blocks that has the block at
\* offset 0
C14_MapComputedAndCached ==
    (/\ pc = "loaded"
     /\ call.op = "get_basic_blocks"
     /\ call.raised = None)
    => /\ call.ret = functions[call.fn]._bbs
       /\ call.ret # None
       /\ IF functions[call.fn].body = None
          THEN call.ret[1] = <<>>
          ELSE /\ 0 \in DOMAIN call.ret[1]
               /\ call.ret[1][0] \in [offset : {0}, stack : {None} \cup {Some(d) : d \in -8..8},
                                      body : Seq(Nat), sources : Seq(Int), targets : Seq(Int)]

\* C15: in the block map built for a body, when an instruction that is a
\* jump target comes right after an unconditional jump or a Ret, the block
\* that holds that jump or Ret has no edge to the block of the jump target,
\* unless a branch of that block targets it
C15_NoEdgeAfterHardBranch ==
    pc \in {"trace", "validate"} =>
        \A i \in 2..Len(BodyOf(cur)) : \A a \in DOMAIN Blocks :
            \E p \in {BodyOf(cur)[i - 1]} : \E q \in {BodyOf(cur)[i]} :
                (/\ q.jumptarget
                 /\ jumps(p) \/ p.opcode = "Ret"
                 /\ \E n \in 1..Len(Blocks[a].body) : Blocks[a].body[n] = i - 1
                 /\ \A n \in 1..Len(Blocks[a].body) :
                      \E insn \in {BodyOf(cur)[Blocks[a].body[n]]} :
                          branches(insn) => insn.operands[1].n # q.offset)
                => /\ q.offset \notin Range(Blocks[a].targets)
                   /\ a \notin Range(Blocks[q.offset].sources)

\* C16: in the block map get_basic_blocks has returned for a function with
\* a body, only the last instruction of a block is a branch or a Ret, and
\* only the first is a jump target
C16_StraightLineBlocks ==
    (/\ pc = "loaded"
     /\ call.op = "get_basic_blocks"
     /\ call.raised = None
     /\ functions[call.fn].body # None
     /\ input[call.fn].attrs = None)
    => \A o \in DOMAIN call.ret[1] : \E bb \in {call.ret[1][o]} :
        \A n \in 1..Len(bb.body) : \E insn \in {BodyOf(call.fn)[bb.body[n]]} :
            /\ n < Len(bb.body) => ~branches(insn) /\ insn.opcode # "Ret"
            /\ n > 1 => ~insn.jumptarget

\* C17: when get_basic_blocks has returned normally for a function with a
\* body, an operand indexed by a variable, of an instruction with a known
\* depth s, has no Local index variant of index s or more, whatever the
\* kind of the variant it indexes
C17_SubIndexValidated ==
    (/\ pc = "loaded"
     /\ call.op = "get_basic_blocks"
     /\ call.raised = None)
    => \A i \in 1..Len(BodyOf(call.fn)) : \A k \in 1..Len(BodyOf(call.fn)[i].operands) :
         \E insn \in {BodyOf(call.fn)[i]} : \E op \in {insn.operands[k]} :
            (/\ insn.stack # None
             /\ op.kind = "Operand"
             /\ op.type = "IndexedByVar"
             /\ op.index[1].type = "Local")
            => op.index[1].index < insn.stack[1]

\* C18: in the map the construction loop builds for a body, ahead of the
\* deletion of the empty blocks, the successors of a block are the targets
\* of its branches, the offset after each of its branches that is not a
\* Jump, JumpPop1 or JumpPop2, and the jump target blocks started right
\* after it; each of them has a block; a Ret adds none; and the map of the
\* function holds those of them whose block was kept
C18_BranchSuccessors ==
    pc \in {"trace", "validate"} =>
        LET body == BodyOf(cur)
            built == BuildBlocks(body, 1, [o \in {0} |-> BasicBlock(0)], 0)
            succ(i) ==
                IF body[i].opcode \notin {"Jump", "JumpFalse", "JumpTrue", "JumpFlag",
                                          "JumpPop1", "JumpPop2"}
                THEN {}
                ELSE {body[i].operands[1].n}
                     \cup (IF body[i].opcode \in {"Jump", "JumpPop1", "JumpPop2"}
                           THEN {} ELSE {body[i].offset + body[i].size})
            started(a) ==
                {body[i].offset : i \in {n \in 2..Len(body) :
                    /\ body[n].jumptarget
                    /\ n - 1 \in Range(built[a].body)
                    /\ \A j \in 1..(n - 1) : body[n].offset \notin succ(j)}}
            expected(a) == UNION {succ(i) : i \in Range(built[a].body)} \cup started(a)
        IN  /\ \A a \in DOMAIN built :
                /\ Range(built[a].targets) = expected(a)
                /\ expected(a) \subseteq DOMAIN built
            /\ DOMAIN Blocks \subseteq DOMAIN built
            /\ \A a \in DOMAIN Blocks :
                Range(Blocks[a].targets) = expected(a) \cap DOMAIN Blocks

\* the propagation is over for JumpTrue X, Push, Jump X, X: Ret: the block
\* of the JumpTrue has two successors, the block of the Jump has one
C18_Witness ==
    /\ pc = "validate"
    /\ input = <<Record(FALSE, FALSE, FALSE, None, MergeScenario)>>
    /\ Len(Blocks[0].targets) = 2
    /\ \E a \in DOMAIN Blocks :
        /\ BodyOf(cur)[Blocks[a].body[Len(Blocks[a].body)]].opcode = "Jump"
        /\ Len(Blocks[a].targets) = 1

\* C19: in the block map get_basic_blocks has returned for a function with
\* a body, b is a successor of a exactly when a is a predecessor of b, the
\* successors and predecessors of every block are blocks of the map, every
\* block is keyed by its offset, and no block is empty
C19_EdgesInverseAndClosed ==
    (/\ pc = "loaded"
     /\ call.op = "get_basic_blocks"
     /\ call.raised = None
     /\ functions[call.fn].body # None
     /\ input[call.fn].attrs = None)
    => \E bbs \in {call.ret[1]} :
        /\ \A a \in DOMAIN bbs : \A b \in DOMAIN bbs :
              b \in Range(bbs[a].targets) <=> a \in Range(bbs[b].sources)
        /\ \A a \in DOMAIN bbs :
              /\ Range(bbs[a].targets) \subseteq DOMAIN bbs
              /\ Range(bbs[a].sources) \subseteq DOMAIN bbs
              /\ bbs[a].offset = a
              /\ bbs[a].body # <<>>

\* a map was returned for a body that ends with a conditional branch: the
\* block past the end of the body is not in it, the block of the target is
C19_Witness ==
    /\ pc = "loaded"
    /\ call.op = "get_basic_blocks"
    /\ call.raised = None
    /\ call.ret # None
    /\ input[call.fn].attrs = None
    /\ Len(BodyOf(call.fn)) >= 2
    /\ \E insn \in {BodyOf(call.fn)[Len(BodyOf(call.fn))]} :
        /\ insn.opcode = "JumpTrue"
        /\ insn.offset + insn.size \notin DOMAIN call.ret[1]
        /\ insn.operands[1].n \in DOMAIN call.ret[1]
        /\ \E a \in DOMAIN call.ret[1] : call.ret[1][a].targets = <<insn.operands[1].n>>

(***************************************************************************)
(* Properties of the Set cells.                                            *)
(***************************************************************************)
\* C20: on a Set whose payload is an integer m, a keyed set of a boolean
\* with a key below the size returns and leaves an integer payload whose
\* bit k is the boolean and whose other bits are those of m; clearing a bit
\* that is 0 leaves m
C20_SetBitFrame ==
    (/\ pc = "cell"
     /\ last.op = "set"
     /\ cell.type.code = "Set"
     /\ last.before.kind = "int"
     /\ last.key # None
     /\ last.key[1] < cell.type.size
     /\ last.value.cls = "bool")
    => LET bit(n, j) == (n \div (2 ^ j)) % 2
           m == last.before.n
           k == last.key[1]
       IN  /\ last.raised = None
           /\ cell.data.kind = "int"
           /\ bit(cell.data.n, k) = (IF last.value.b THEN 1 ELSE 0)
           /\ \A j \in 0..16 : j # k => bit(cell.data.n, j) = bit(m, j)
           /\ cell.data.n \div 131072 = m \div 131072
           /\ (~last.value.b /\ bit(m, k) = 0) => cell.data.n = m

\* bit 8 was cleared in the payload 0x100 and set in the payload 5
C20_Witness ==
    /\ pc = "cell"
    /\ cell.type.code = "Set"
    /\ last.op = "set"
    /\ last.key = Some(8)
    /\ \/ last.before = Mask(256) /\ last.value = PyBool(FALSE) /\ cell.data = Mask(0)
       \/ last.before = Mask(5) /\ last.value = PyBool(TRUE) /\ cell.data = Mask(261)

(***************************************************************************)
(* Fall-through edges, failures, and termination of the propagation.       *)
(***************************************************************************)
\* C21: in the block map built for a body, when two consecutive
\* instructions lie in different blocks and the first is neither an
\* unconditional jump nor a Ret, the block of the second is a successor of
\* the block of the first
C21_FallThroughEdges ==
    pc \in {"trace", "validate"} =>
        \A i \in 1..(Len(BodyOf(cur)) - 1) : \A a \in DOMAIN Blocks : \A b \in DOMAIN Blocks :
            \E p \in {BodyOf(cur)[i]} :
                (/\ a # b
                 /\ i \in Range(Blocks[a].body)
                 /\ (i + 1) \in Range(Blocks[b].body)
                 /\ ~jumps(p)
                 /\ p.opcode # "Ret")
                => b \in Range(Blocks[a].targets)

\* C22: when a call of get_basic_blocks on a function has raised the
\* IndexError of the validation, the next call of get_basic_blocks on the
\* same function raises it as well
C22_FailureNotCached ==
    [][(/\ call.op = "get_basic_blocks"
        /\ call.raised = Some("IndexError")
        /\ call' # call
        /\ call'.op = "get_basic_blocks"
        /\ call'.fn = call.fn)
       => call'.raised = Some("IndexError")]_vars

\* C23: a set that raised has left the payload of the cell as it was
\* before the call
C23_FailedSetKeepsPayload ==
    (/\ pc = "cell"
     /\ last.op = "set"
     /\ last.raised # None)
    => cell.data = last.before

\* C24: the stack propagation of get_basic_blocks terminates.  A call of
\* trace_stack goes on to assign the depth of its block and to recurse only
\* when it enters the block into visited, with a known depth, the block
\* being in neither set, or enters it into errored, with the depth unknown,
\* the block not being errored; the two sets only grow, so a block is
\* assigned at most twice, and a call arriving at an errored block returns
\* without recursing.  The recursion is never deeper than two calls for
\* each block.
C24_PropagationTerminates ==
    /\ [][(pc = "trace" /\ pc' = "trace")
          => /\ visited \subseteq visited'
             /\ errored \subseteq errored'
             /\ Len(frames') > Len(frames) =>
                  \E o \in {frames'[Len(frames')].offset[1]} :
                      /\ o = Head(frames[Len(frames)].todo)
                      /\ o \notin errored
                      /\ \/ /\ o \notin visited
                            /\ visited' = visited \cup {o}
                            /\ errored' = errored
                            /\ functions'[cur]._bbs[1][o].stack # None
                         \/ /\ errored' = errored \cup {o}
                            /\ visited' = visited
                            /\ functions'[cur]._bbs[1][o].stack = None
             /\ (frames[Len(frames)].todo # <<>>
                 /\ Head(frames[Len(frames)].todo) \in errored)
                => /\ Len(frames') = Len(frames)
                   /\ functions' = functions]_vars
    /\ [](pc = "trace" => Len(frames) <= 2 * Cardinality(DOMAIN Blocks) + 1)
    /\ (pc = "trace") ~> (pc # "trace")

\* the propagation has ended on a map with a loop, a block that is its own
\* successor, whose depth was assigned twice: known first, unknown on the
\* way back
C24_Witness ==
    /\ pc = "validate"
    /\ \E o \in visited \cap errored : o \in Range(Blocks[o].targets)
====
